---- MODULE Spec2Model ----
(***************************************************************************)
(* Model of interactive_simulator.py: the Tk user-interface thread, the    *)
(* background worker started by start_simulation_thread, the after() queue *)
(* between them, and the yield-scaling / payback / CO2 computations of     *)
(* run_simulation, update_gui_results, create_economic_plot and            *)
(* create_environmental_plot.                                              *)
(*                                                                         *)
(* Floating-point values are modelled as extended rationals [n, d]:        *)
(* d > 0 is the finite value n/d in lowest terms, d = 0 is a non-finite    *)
(* value (n = 1: inf, n = -1: -inf, n = 0: nan), following numpy's         *)
(* float64 division, which yields inf/nan instead of raising.              *)
(***************************************************************************)
EXTENDS Integers, Sequences, FiniteSets, TLC

----------------------------------------------------------------------------
(* float64 arithmetic *)

Abs(x) == IF x < 0 THEN -x ELSE x

Sign(x) == IF x < 0 THEN -1 ELSE IF x > 0 THEN 1 ELSE 0

RECURSIVE Gcd(_, _)
Gcd(a, b) == IF b = 0 THEN a ELSE Gcd(b, a % b)

\* The float with numerator n and denominator d, in lowest terms.
R(n, d) ==
    IF d = 0 THEN [n |-> Sign(n), d |-> 0]
    ELSE LET g == Gcd(Abs(n), Abs(d))
         IN  [n |-> Sign(d) * (n \div g), d |-> Abs(d) \div g]

Zero == R(0, 1)

One == R(1, 1)

NaN == R(0, 0)

IsFinite(a) == a.d # 0

IsNaN(a) == a.d = 0 /\ a.n = 0

IsNeg(a) == a.n < 0

IsPos(a) == a.n > 0

FNeg(a) == [n |-> -a.n, d |-> a.d]

\* a * b; inf * 0 is nan (n = 0, d = 0).
FMul(a, b) ==
    IF a.d = 0 \/ b.d = 0 THEN R(a.n * b.n, 0)
    ELSE LET g1 == Gcd(Abs(a.n), b.d)
             g2 == Gcd(Abs(b.n), a.d)
         IN  R((a.n \div g1) * (b.n \div g2), (a.d \div g2) * (b.d \div g1))

\* 1 / a; 1 / 0 is inf as for a numpy float64 (a warning, not an exception).
FInv(a) == IF IsNaN(a) THEN NaN ELSE R(a.d, a.n)

FDiv(a, b) == FMul(a, FInv(b))

\* a + b; inf + -inf is nan.
FAdd(a, b) ==
    IF IsNaN(a) \/ IsNaN(b) THEN NaN
    ELSE IF a.d = 0 /\ b.d = 0 THEN (IF a.n = b.n THEN a ELSE NaN)
    ELSE IF a.d = 0 THEN a
    ELSE IF b.d = 0 THEN b
    ELSE LET g == Gcd(a.d, b.d)
         IN  R(a.n * (b.d \div g) + b.n * (a.d \div g), (a.d \div g) * b.d)

FSub(a, b) == FAdd(a, FNeg(b))

\* floor(n / d) for d > 0.
FloorDiv(n, d) == IF n >= 0 THEN n \div d ELSE -((-n + d - 1) \div d)

\* Python's format(x, ".<digits>f") for scale = 10^digits: the finite value
\* rounded half-to-even to that many decimals; nan and inf print as such.
Format(a, scale) ==
    IF a.d = 0 THEN a
    ELSE LET whole == FloorDiv(a.n, a.d)
             rest == (a.n - whole * a.d) * scale
             q == rest \div a.d
             twice == 2 * (rest - q * a.d)
             up == twice > a.d \/ (twice = a.d /\ (whole * scale + q) % 2 = 1)
         IN  R(whole * scale + q + (IF up THEN 1 ELSE 0), scale)

----------------------------------------------------------------------------
(* run_simulation: specific yield and loss proportions *)

\* Denominator of the grid to which the model rounds the yearly decayed
\* yield (float64 rounds every product to 53 bits; the exact product would
\* need a denominator growing by a factor of 1000 each year).
Grid == 1000

\* years = np.arange(0, 26)
NumYears == 26

Horizon == NumYears - 1

Years == 0 .. Horizon

FromInt(i) == R(i, 1)

\* What pvlib's ModelChain hands back for a module: the annual sums of
\* mc.results.ac, mc.results.dc['p_mp'] and mc.results.effective_irradiance,
\* and the module's STC power (W) and area A_c (m2).
Raw(ac, dc, irr, stc, area) ==
    [ac_sum |-> FromInt(ac), dc_sum |-> FromInt(dc), irr_sum |-> FromInt(irr),
     STC |-> FromInt(stc), A_c |-> area]

\* Lines 72-96 of run_simulation, after mc.run_model has returned raw.
run_simulation(raw) ==
    LET module_power_kwp == FDiv(raw.STC, FromInt(1000))
        actual_ac_energy_kwh == FDiv(raw.ac_sum, FromInt(1000))
        specific_yield == FDiv(actual_ac_energy_kwh, module_power_kwp)
        dc_energy_kwh == FDiv(raw.dc_sum, FromInt(1000))
        inverter_loss_kwh == FSub(dc_energy_kwh, actual_ac_energy_kwh)
        num_modules_per_kwp == FDiv(FromInt(1000), raw.STC)
        system_area == FMul(num_modules_per_kwp, raw.A_c)
        poa_energy_kwh == FDiv(FMul(raw.irr_sum, system_area), FromInt(1000))
        dc_system_loss_kwh == FSub(poa_energy_kwh, dc_energy_kwh)
        total_energy_input == poa_energy_kwh
    IN  [specific_yield |-> specific_yield,
         ac_power |-> raw.ac_sum,
         loss_proportions |->
            [dc_system_loss_ratio |-> FDiv(dc_system_loss_kwh, total_energy_input),
             inverter_loss_ratio |-> FDiv(inverter_loss_kwh, total_energy_input),
             final_yield_ratio |-> FDiv(actual_ac_energy_kwh, total_energy_input)]]

----------------------------------------------------------------------------
(* create_economic_plot: remaining cost and payback period *)

\* a rounded down to a multiple of 1/Grid.
RoundGrid(a) ==
    IF a.d = 0 THEN a
    ELSE LET whole == FloorDiv(a.n, a.d)
             rest == a.n - whole * a.d
         IN  R(whole * Grid + (rest * Grid) \div a.d, Grid)

\* current_yield *= (1 - annual_degradation_rate)
Decay(current_yield, annual_degradation_rate) ==
    RoundGrid(FMul(current_yield, FSub(One, annual_degradation_rate)))

\* The loop of lines 179-182 from year i on: cumulative_savings[i..Horizon].
RECURSIVE SavingsFrom(_, _, _, _, _)
SavingsFrom(i, prev, current_yield, price, annual_degradation_rate) ==
    IF i > Horizon THEN <<>>
    ELSE LET annual_savings == FMul(current_yield, price)
             cum == FAdd(prev, annual_savings)
         IN  <<cum>> \o SavingsFrom(i + 1, cum,
                                    Decay(current_yield, annual_degradation_rate),
                                    price, annual_degradation_rate)

\* remaining_cost = cost - cumulative_savings, indexed by year 0..25.
RemainingCost(cost, specific_yield, price, annual_degradation_rate) ==
    LET cumulative_savings ==
            <<Zero>> \o SavingsFrom(1, Zero, specific_yield, price,
                                    annual_degradation_rate)
    IN  [y \in Years |-> FSub(cost, cumulative_savings[y + 1])]

\* The bisection loop of numpy's binary_search_with_guess for key 0.
RECURSIVE Bisect(_, _, _)
Bisect(arr, imin, imax) ==
    IF imin < imax
    THEN LET imid == imin + ((imax - imin) \div 2)
         IN  IF ~IsPos(arr[imid]) THEN Bisect(arr, imid + 1, imax)
             ELSE Bisect(arr, imin, imid)
    ELSE imin - 1

\* numpy's binary_search_with_guess(key = 0, arr, len, guess = 0): the index j
\* with arr[j] <= 0 < arr[j+1] when arr is sorted, -1 below arr[0], len above
\* arr[len-1]. LIKELY_IN_CACHE_SIZE is 8; len = 26 > 4, so no linear search.
BinarySearch(arr, len) ==
    IF IsNeg(arr[len - 1]) THEN len
    ELSE IF IsPos(arr[0]) THEN -1
    ELSE LET guess == 1
         IN  IF IsPos(arr[guess])
             THEN (IF IsPos(arr[guess - 1]) THEN Bisect(arr, 0, guess - 1)
                   ELSE guess - 1)
             ELSE IF IsPos(arr[guess + 1]) THEN guess
             ELSE IF IsPos(arr[guess + 2]) THEN guess + 1
             ELSE Bisect(arr, guess + 2,
                         IF guess < len - 8 - 1 /\ IsPos(arr[guess + 8])
                         THEN guess + 8 ELSE len)

FirstNotNaN(a, b) == IF ~IsNaN(a) THEN a ELSE b

\* The interpolation of np.interp in [xp[j], xp[j+1]] for x = 0 and
\* fp = years: slope * (x - xp[j]) + fp[j], and from the other end when
\* that is nan.
Interpolate(xp, j, slope) ==
    FirstNotNaN(FAdd(FMul(slope, FNeg(xp[j])), FromInt(j)),
                FAdd(FMul(slope, FNeg(xp[j + 1])), FromInt(j + 1)))

\* np.interp once the search has returned j: fp[0] left of xp, fp[-1] right
\* of it or at its last point, fp[j] at a point of xp.
InterpAt(xp, len, j) ==
    IF j = -1 THEN FromInt(0)
    ELSE IF j = len THEN FromInt(len - 1)
    ELSE IF j = len - 1 THEN FromInt(j)
    ELSE IF xp[j] = Zero THEN FromInt(j)
    ELSE Interpolate(xp, j, FDiv(One, FSub(xp[j + 1], xp[j])))

\* np.interp(0, xp, years)
Interp(xp, len) == InterpAt(xp, len, BinarySearch(xp, len))

\* Lines 192-194: the payback marker is drawn for 0 < payback_period < 25.
Marked(payback_period) ==
    /\ IsFinite(payback_period)
    /\ IsPos(payback_period)
    /\ IsNeg(FSub(payback_period, FromInt(25)))

\* Line 190: payback_period = np.interp(0, -remaining_cost, years)
PaybackPeriod(remaining_cost) ==
    Interp([y \in Years |-> FNeg(remaining_cost[y])], NumYears)

\* create_economic_plot: the payback_period it returns.
create_economic_plot(cost, specific_yield, price, annual_degradation_rate) ==
    PaybackPeriod(RemainingCost(cost, specific_yield, price,
                                annual_degradation_rate))

----------------------------------------------------------------------------
(* create_environmental_plot: cumulative CO2 saved *)

\* The cumulative curve counted from the end of year 0 instead of its start.
create_environmental_plot_from_one(co2_saved_kg) ==
    [y \in Years |-> FMul(FromInt(y + 1), co2_saved_kg)]

\* Lines 213-214: cumulative_co2_saved = years * co2_saved_kg
create_environmental_plot(co2_saved_kg) ==
    [y \in Years |-> FMul(FromInt(y), co2_saved_kg)]

----------------------------------------------------------------------------
(* update_gui_results: the values it computes from the worker's arguments   *)
(* and the health slider read at update time                                *)

\* The waterfall with the inverter loss taken as a share of the final yield
\* instead of the scaled energy input.
ScaledLossesOfYield(real_specific_yield, loss_proportions, total_energy_input_scaled) ==
    [POA |-> total_energy_input_scaled,
     DCSystemLoss |-> FMul(total_energy_input_scaled,
                           loss_proportions.dc_system_loss_ratio),
     InverterLoss |-> FMul(real_specific_yield,
                           loss_proportions.inverter_loss_ratio),
     FinalACYield |-> real_specific_yield]

\* Lines 462-471: the loss waterfall scaled to the real yield.
ScaledLosses(real_specific_yield, loss_proportions, total_energy_input_scaled) ==
    [POA |-> total_energy_input_scaled,
     DCSystemLoss |-> FMul(total_energy_input_scaled,
                           loss_proportions.dc_system_loss_ratio),
     InverterLoss |-> FMul(total_energy_input_scaled,
                           loss_proportions.inverter_loss_ratio),
     FinalACYield |-> real_specific_yield]

\* Lines 459-480 once real_specific_yield and co2_saved_kg are known.
Computed(args, system_health_factor, real_specific_yield, co2_saved_kg, payback_period) ==
    [real_specific_yield |-> real_specific_yield,
     scaled_ac_power |-> FMul(args.ac_power, system_health_factor),
     scaled_losses |->
        ScaledLosses(real_specific_yield, args.loss_proportions,
                     FDiv(real_specific_yield,
                          args.loss_proportions.final_yield_ratio)),
     annual_savings |-> FMul(real_specific_yield, args.price),
     payback_period |-> payback_period,
     economic_plot |->
        [remaining_cost |-> RemainingCost(args.cost, real_specific_yield,
                                          args.price,
                                          args.annual_degradation_rate),
         marker |-> Marked(payback_period)],
     co2_saved_kg |-> co2_saved_kg,
     environmental_plot |-> create_environmental_plot(co2_saved_kg)]

\* Lines 457, 477 and 479.
ComputeScaled(args, system_health_factor, real_specific_yield) ==
    Computed(args, system_health_factor, real_specific_yield,
             FDiv(FMul(real_specific_yield, args.co2_intensity), FromInt(1000)),
             create_economic_plot(args.cost, real_specific_yield, args.price,
                                  args.annual_degradation_rate))

\* Lines 456-457.
ComputeWithHealth(args, system_health_factor) ==
    ComputeScaled(args, system_health_factor,
                  FMul(args.specific_yield, system_health_factor))

\* Lines 456-480: everything update_gui_results computes before it touches
\* the first widget.
ComputeResults(args, health_slider) ==
    ComputeWithHealth(args, FDiv(health_slider, FromInt(100)))

----------------------------------------------------------------------------
(* SolarSimulatorApp: state *)

VARIABLES
    controls,              \* the input widgets: entries, sliders, selectors
    run_button,            \* [state, text] of run_button
    export_button,         \* state of export_button
    labels,                \* yield_label, savings_label, payback_label, co2_label
    images,                \* images of the five plot labels
    system_details_label,  \* the status line
    simulation_results,    \* self.simulation_results
    threads,               \* the worker threads, by the run that started them
    ui,                    \* where the Tk thread is: in mainloop or in a handler
    after_queue,           \* callbacks scheduled with self.after(0, ...)
    data_folder,           \* the cached weather files: [name, data]
    results_folder,        \* the plot files written so far
    csv_file,              \* the CSV file an export writes, and what it holds
    history                \* not program state: the number of edits made, what
                           \* was shown when the latest run started, the inputs
                           \* of the stored results, how each run ended, the
                           \* calls of pvlib.iotools.get_pvgis_tmy in their
                           \* order, and the widgets when the latest run was
                           \* triggered

vars == <<controls, run_button, export_button, labels, images,
          system_details_label, simulation_results, threads, ui, after_queue,
          data_folder, results_folder, csv_file, history>>

\* Runs the user may start in the application specification.
MaxRuns == 2

\* Runs the user may start in the pipeline specification.
PipelineRuns == 1

\* Edits of the input widgets the user may make in the application
\* specification.
MaxEdits == 1

Runs == 1 .. MaxRuns

GERMAN_CITIES ==
    [c \in {"Heidelberg", "Berlin"} |->
        IF c = "Heidelberg" THEN <<R(494077, 10000), R(86908, 10000)>>
        ELSE <<R(5252, 100), R(13405, 1000)>>]

\* Text of an entry widget: a number float() parses, or text it rejects.
Number(v) == [numeric |-> TRUE, v |-> v]

NotANumber == [numeric |-> FALSE, v |-> Zero]

\* Label texts: the "---" placeholder of __init__, or a formatted value.
Dashes == [shown |-> FALSE, v |-> Zero]

Text(v) == [shown |-> TRUE, v |-> v]

NoImage == [drawn |-> FALSE]

Image(data) == [drawn |-> TRUE, data |-> data]

NoPlots == [monthly |-> NoImage, daily |-> NoImage, loss |-> NoImage,
            economic |-> NoImage, environmental |-> NoImage]

None == [present |-> FALSE]

NoParams == [parsed |-> FALSE]

NewThread == [pc |-> "new", params |-> NoParams, tmy_data |-> ""]

NewHistory == [outcome |-> "none"]

\* The widgets as __init__ leaves them (lines 258-400). No value of
\* mode_selector is selected: toggle_mode("Select City") of line 381 only
\* configures the entries.
InitControls ==
    [lat_entry |-> Number(GERMAN_CITIES["Heidelberg"][1]),
     lon_entry |-> Number(GERMAN_CITIES["Heidelberg"][2]),
     cost_entry |-> Number(FromInt(1500)),
     price_entry |-> Number(R(30, 100)),
     co2_entry |-> Number(FromInt(434)),
     tilt_slider |-> 35,
     azimuth_slider |-> 180,
     health_slider |-> FromInt(95),
     degradation_slider |-> R(5, 10),
     mode_selector |-> "",
     city_combobox |-> "Heidelberg",
     module_combobox |-> "Hanwha_Q_CELLS_Q_PEAK_DUO_G5_325",
     inverter_combobox |-> "SMA_America__SB3000TL_US_22__240V_"]

\* Everything of __init__ but the input widgets; the data folder is what
\* earlier sessions left on disk.
InitRest ==
    /\ run_button = [state |-> "normal", text |-> "Run Simulation"]
    /\ export_button = "disabled"
    /\ labels = [yield_label |-> Dashes, savings_label |-> Dashes,
                 payback_label |-> Dashes, co2_label |-> Dashes]
    /\ images = NoPlots
    /\ system_details_label = "Simulator is ready"
    /\ simulation_results = None
    /\ threads = [w \in Runs |-> NewThread]
    /\ ui = "mainloop"
    /\ after_queue = <<>>
    /\ results_folder = NoPlots
    /\ csv_file = None
    /\ history = [edits |-> 0, before |-> None, stored |-> None,
                  run |-> [w \in Runs |-> NewHistory], network |-> <<>>,
                  triggered |-> None]

\* The application starts with an empty data folder.
Init == controls = InitControls /\ data_folder = {} /\ InitRest

----------------------------------------------------------------------------
(* The Tk thread: the run button *)

\* What a run can leave on screen and in self.simulation_results.
Shown == [present |-> TRUE, labels |-> labels, images |-> images,
          simulation_results |-> simulation_results]

\* The next thread object to be created.
NextRun == CHOOSE w \in Runs : threads[w].pc = "new" /\ \A v \in Runs : v < w => threads[v].pc # "new"

\* A click on run_button reaches its command only while the button is not
\* disabled; lines 431-433 then start the worker thread.
StartThread(limit) ==
    /\ ui = "mainloop"
    /\ run_button.state = "normal"
    /\ \E w \in Runs : threads[w].pc = "new" /\ w <= limit
    /\ threads' = [threads EXCEPT ![NextRun].pc = "parse"]
    /\ ui' = "start_simulation_thread"
    /\ history' = [history EXCEPT !.before = Shown,
                                  !.triggered = controls,
                                  !.run[NextRun].outcome = "running"]
    /\ UNCHANGED <<controls, run_button, export_button, labels, images,
                   system_details_label, simulation_results, after_queue,
                   data_folder, results_folder, csv_file>>

\* start_simulation_thread without its line 434: the button stays enabled.
DisableRunButtonOmitted ==
    /\ ui = "start_simulation_thread"
    /\ ui' = "mainloop"
    /\ UNCHANGED <<controls, run_button, export_button, labels, images,
                   system_details_label, simulation_results, threads,
                   after_queue, data_folder, results_folder, csv_file,
                   history>>

\* Line 434, the last statement of start_simulation_thread; the worker is
\* already running beside it.
DisableRunButton ==
    /\ ui = "start_simulation_thread"
    /\ run_button' = [state |-> "disabled", text |-> "Simulating..."]
    /\ ui' = "mainloop"
    /\ UNCHANGED <<controls, export_button, labels, images,
                   system_details_label, simulation_results, threads,
                   after_queue, data_folder, results_folder, csv_file,
                   history>>

\* simulation_finished, lines 524-525.
simulation_finished(button_text) ==
    [state |-> "normal", text |-> button_text]

\* simulation_finished("Error") run at once where the worker schedules it,
\* without waiting for the Tk thread to return to its mainloop.
RunSimulationFinishedAtOnce ==
    /\ after_queue # <<>>
    /\ Head(after_queue).fn = "simulation_finished"
    /\ run_button' = simulation_finished(Head(after_queue).args)
    /\ after_queue' = Tail(after_queue)
    /\ UNCHANGED <<controls, export_button, labels, images,
                   system_details_label, simulation_results, threads, ui,
                   data_folder, results_folder, csv_file, history>>

\* The mainloop runs the callback self.after(0, self.simulation_finished, "Error").
RunSimulationFinished ==
    /\ ui = "mainloop"
    /\ after_queue # <<>>
    /\ Head(after_queue).fn = "simulation_finished"
    /\ run_button' = simulation_finished(Head(after_queue).args)
    /\ after_queue' = Tail(after_queue)
    /\ UNCHANGED <<controls, export_button, labels, images,
                   system_details_label, simulation_results, threads, ui,
                   data_folder, results_folder, csv_file, history>>

----------------------------------------------------------------------------
(* The worker thread: run_simulation_task *)

Failed(w) == [history EXCEPT !.run[w].outcome = "failed"]

Inputs(cb) ==
    [present |-> TRUE, run |-> cb.run, args |-> cb.args,
     health_slider |-> controls.health_slider,
     triggered |-> history.triggered]

ErrorCallback(w) == [fn |-> "simulation_finished", args |-> "Error", run |-> w]

\* Lines 438-445: the widgets are read and the entries parsed with float().
ReadParameters(c) ==
    [parsed |-> TRUE,
     lat |-> c.lat_entry.v, lon |-> c.lon_entry.v,
     tilt |-> c.tilt_slider, azimuth |-> c.azimuth_slider,
     cost |-> c.cost_entry.v, price |-> c.price_entry.v,
     co2_intensity |-> c.co2_entry.v,
     annual_degradation_rate |-> FDiv(c.degradation_slider, FromInt(100)),
     city_name |-> IF c.mode_selector = "Select City" THEN c.city_combobox ELSE "",
     selected_module |-> c.module_combobox,
     selected_inverter |-> c.inverter_combobox]

\* float() raises ValueError for an entry that holds no number.
Parses(c) ==
    /\ c.lat_entry.numeric /\ c.lon_entry.numeric
    /\ c.cost_entry.numeric /\ c.price_entry.numeric /\ c.co2_entry.numeric

\* Lines 438-445, and lines 451-453 when float() raises.
ParseParameters(w) ==
    /\ threads[w].pc = "parse"
    /\ IF Parses(controls)
       THEN /\ threads' = [threads EXCEPT ![w].pc = "fetch",
                                          ![w].params = ReadParameters(controls)]
            /\ UNCHANGED <<after_queue, history>>
       ELSE /\ threads' = [threads EXCEPT ![w].pc = "done"]
            /\ after_queue' = Append(after_queue, ErrorCallback(w))
            /\ history' = Failed(w)
    /\ UNCHANGED <<controls, run_button, export_button, labels, images,
                   system_details_label, simulation_results, ui, data_folder,
                   results_folder, csv_file>>

\* get_tmy_data, lines 33-36: the cache file's name.
file_path(latitude, longitude, city_name) ==
    IF city_name # "" THEN <<"tmy", city_name>>
    ELSE <<"tmy", Format(latitude, 10000), Format(longitude, 10000)>>

FileOf(w) ==
    file_path(threads[w].params.lat, threads[w].params.lon,
              threads[w].params.city_name)

\* What a download from PVGIS may return.
PvgisData == {"tmy_a", "tmy_b"}

\* os.path.exists(file_path)
Exists(name) == \E f \in data_folder : f.name = name

\* pd.read_csv(file_path, ...)
read_csv(name) == (CHOOSE f \in data_folder : f.name = name).data

\* A call of get_pvgis_tmy by run w, and what it returned.
NetworkCall(w, ok, data) ==
    [run |-> w, name |-> FileOf(w), ok |-> ok, data |-> data]

\* get_tmy_data downloading again although the cache file exists.
FetchCachedDownloadsAgain(w) ==
    /\ threads[w].pc = "fetch"
    /\ Exists(FileOf(w))
    /\ threads' = [threads EXCEPT ![w].pc = "simulate",
                                  ![w].tmy_data = read_csv(FileOf(w))]
    /\ history' = [history EXCEPT
                      !.network = Append(@, NetworkCall(w, TRUE, read_csv(FileOf(w))))]
    /\ UNCHANGED <<controls, run_button, export_button, labels, images,
                   system_details_label, simulation_results, ui, after_queue,
                   data_folder, results_folder, csv_file>>

\* get_tmy_data, lines 37-38: the cached file is read, no download.
FetchCached(w) ==
    /\ threads[w].pc = "fetch"
    /\ Exists(FileOf(w))
    /\ threads' = [threads EXCEPT ![w].pc = "simulate",
                                  ![w].tmy_data = read_csv(FileOf(w))]
    /\ UNCHANGED <<controls, run_button, export_button, labels, images,
                   system_details_label, simulation_results, ui, after_queue,
                   data_folder, results_folder, csv_file, history>>

\* get_tmy_data, lines 39-42: the download succeeds and is cached.
FetchDownload(w) ==
    /\ threads[w].pc = "fetch"
    /\ ~Exists(FileOf(w))
    /\ \E tmy_data \in PvgisData :
        /\ data_folder' = data_folder \cup {[name |-> FileOf(w), data |-> tmy_data]}
        /\ threads' = [threads EXCEPT ![w].pc = "simulate",
                                      ![w].tmy_data = tmy_data]
        /\ history' = [history EXCEPT
                          !.network = Append(@, NetworkCall(w, TRUE, tmy_data))]
    /\ UNCHANGED <<controls, run_button, export_button, labels, images,
                   system_details_label, simulation_results, ui, after_queue,
                   results_folder, csv_file>>

\* get_tmy_data, lines 43-45, returns None, and line 448 then skips the
\* rest of the task: the thread ends without scheduling any callback.
FetchFails(w) ==
    /\ threads[w].pc = "fetch"
    /\ ~Exists(FileOf(w))
    /\ threads' = [threads EXCEPT ![w].pc = "done"]
    /\ history' = [Failed(w) EXCEPT
                      !.network = Append(@, NetworkCall(w, FALSE, ""))]
    /\ UNCHANGED <<controls, run_button, export_button, labels, images,
                   system_details_label, simulation_results, ui, after_queue,
                   data_folder, results_folder, csv_file>>

\* Lines 449-450: run_simulation returns and update_gui_results is scheduled
\* with the values parsed at the start of the task.
Simulate(w, raws) ==
    /\ threads[w].pc = "simulate"
    /\ \E raw \in raws :
        LET sim == run_simulation(raw)
            p == threads[w].params
        IN  after_queue' = Append(after_queue,
                [fn |-> "update_gui_results",
                 args |-> [specific_yield |-> sim.specific_yield,
                           ac_power |-> sim.ac_power,
                           cost |-> p.cost, price |-> p.price,
                           co2_intensity |-> p.co2_intensity,
                           module_name |-> p.selected_module,
                           inverter_name |-> p.selected_inverter,
                           loss_proportions |-> sim.loss_proportions,
                           annual_degradation_rate |-> p.annual_degradation_rate],
                 run |-> w])
    /\ threads' = [threads EXCEPT ![w].pc = "done"]
    /\ UNCHANGED <<controls, run_button, export_button, labels, images,
                   system_details_label, simulation_results, ui, data_folder,
                   results_folder, csv_file, history>>

\* Line 449 raises (an unknown module or inverter name, weather data pvlib
\* rejects); lines 451-453 schedule simulation_finished("Error").
SimulateRaises(w) ==
    /\ threads[w].pc = "simulate"
    /\ threads' = [threads EXCEPT ![w].pc = "done"]
    /\ after_queue' = Append(after_queue, ErrorCallback(w))
    /\ history' = Failed(w)
    /\ UNCHANGED <<controls, run_button, export_button, labels, images,
                   system_details_label, simulation_results, ui, data_folder,
                   results_folder, csv_file>>

----------------------------------------------------------------------------
(* The Tk thread: update_gui_results *)

\* Lines 482-485: the four result labels.
NewLabels(r) ==
    [yield_label |-> Text(Format(r.real_specific_yield, 1)),
     savings_label |-> Text(Format(r.annual_savings, 1)),
     payback_label |-> Text(Format(r.payback_period, 10)),
     co2_label |-> Text(Format(r.co2_saved_kg, 1))]

\* Lines 487-502: self.simulation_results; its Summary reads the widgets
\* again, at update time.
NewResults(args, r, c) ==
    [present |-> TRUE,
     Summary |->
        [City |-> IF c.mode_selector = "Select City" THEN <<c.city_combobox>>
                  ELSE <<"Manual", c.lat_entry, c.lon_entry>>,
         Tilt |-> c.tilt_slider,
         Azimuth |-> c.azimuth_slider,
         SystemHealth |-> c.health_slider,
         AnnualDegradationRate |-> c.degradation_slider,
         FinalAnnualSpecificYield |-> r.real_specific_yield,
         AnnualSavings |-> r.annual_savings,
         PaybackPeriod |-> r.payback_period,
         AnnualCO2Saved |-> r.co2_saved_kg],
     Losses |-> r.scaled_losses,
     MonthlyProduction |-> r.scaled_ac_power,
     Components |-> [Module |-> args.module_name, Inverter |-> args.inverter_name]]

\* The plot files written by create_plots, create_loss_diagram,
\* create_economic_plot and create_environmental_plot (lines 459-480).
NewPlots(r) ==
    [monthly |-> Image(r.scaled_ac_power),
     daily |-> Image(r.scaled_ac_power),
     loss |-> Image(r.scaled_losses),
     economic |-> Image(r.economic_plot),
     environmental |-> Image(r.environmental_plot)]

UpdateCallback ==
    /\ ui = "mainloop"
    /\ after_queue # <<>>
    /\ Head(after_queue).fn = "update_gui_results"

\* Lines 459-502: the plot files, the labels and self.simulation_results.
StoreResults(cb, r) ==
    /\ results_folder' = NewPlots(r)
    /\ labels' = NewLabels(r)
    /\ simulation_results' = NewResults(cb.args, r, controls)

\* Lines 504-518: the plot files are loaded into the plot labels.
LoadImages(r) == images' = NewPlots(r)

Ended(cb, outcome) ==
    [history EXCEPT !.run[cb.run].outcome = outcome, !.stored = Inputs(cb)]

ShowResults(cb, r) == StoreResults(cb, r) /\ LoadImages(r)

\* update_gui_results runs to its end, lines 456-522.
UpdateGuiResults ==
    /\ UpdateCallback
    /\ ShowResults(Head(after_queue),
                   ComputeResults(Head(after_queue).args, controls.health_slider))
    /\ history' = Ended(Head(after_queue), "ok")
    /\ system_details_label' = "Simulated Components"
    /\ run_button' = simulation_finished("Run Simulation")
    /\ export_button' = "normal"
    /\ after_queue' = Tail(after_queue)
    /\ UNCHANGED <<controls, threads, ui, data_folder, csv_file>>

\* update_gui_results enabling the export button before anything else, and
\* then raising while it writes the first plot file.
UpdateGuiResultsPlotErrorAfterExportEnabled ==
    /\ UpdateCallback
    /\ export_button' = "normal"
    /\ history' = Failed(Head(after_queue).run)
    /\ after_queue' = Tail(after_queue)
    /\ UNCHANGED <<controls, run_button, labels, images,
                   system_details_label, simulation_results, threads, ui,
                   data_folder, results_folder, csv_file>>

\* update_gui_results raises while it writes the first plot file (line 459):
\* Tk reports the exception and the mainloop goes on; no widget was touched.
UpdateGuiResultsPlotError ==
    /\ UpdateCallback
    /\ history' = Failed(Head(after_queue).run)
    /\ after_queue' = Tail(after_queue)
    /\ UNCHANGED <<controls, run_button, export_button, labels, images,
                   system_details_label, simulation_results, threads, ui,
                   data_folder, results_folder, csv_file>>

\* update_gui_results raises at the first Image.open (line 505), after the
\* labels (482-485) and self.simulation_results (487-502) were assigned.
UpdateGuiResultsImageError ==
    /\ UpdateCallback
    /\ StoreResults(Head(after_queue),
                    ComputeResults(Head(after_queue).args, controls.health_slider))
    /\ history' = Ended(Head(after_queue), "failed")
    /\ after_queue' = Tail(after_queue)
    /\ UNCHANGED <<controls, run_button, export_button, images,
                   system_details_label, threads, ui, data_folder, csv_file>>

----------------------------------------------------------------------------
(* The Tk thread: export_to_csv *)

\* The three tables export_to_csv writes (lines 536-549).
CsvContent ==
    [present |-> TRUE,
     Summary |-> simulation_results.Summary,
     Losses |-> simulation_results.Losses,
     MonthlyProduction |-> simulation_results.MonthlyProduction]

\* A click on export_button while it is enabled; the file dialog returns a
\* path and the file is written.
ExportToCsv ==
    /\ ui = "mainloop"
    /\ export_button = "normal"
    /\ IF ~simulation_results.present
       THEN UNCHANGED <<csv_file, system_details_label>>
       ELSE /\ csv_file' = CsvContent
            /\ system_details_label' = "Results successfully exported"
    /\ UNCHANGED <<controls, run_button, export_button, labels, images,
                   simulation_results, threads, ui, after_queue, data_folder,
                   results_folder, history>>

\* The file cannot be written: lines 552-553 report it in the status line.
ExportToCsvFails ==
    /\ ui = "mainloop"
    /\ export_button = "normal"
    /\ simulation_results.present
    /\ system_details_label' = "Error exporting file"
    /\ UNCHANGED <<controls, run_button, export_button, labels, images,
                   simulation_results, threads, ui, after_queue, data_folder,
                   results_folder, csv_file, history>>

----------------------------------------------------------------------------
(* The Tk thread: the user edits the input widgets *)

\* What the user types or sets in the application specification: a negative
\* cost, a cost that is no number, another health, another degradation.
TypedCosts == {Number(FromInt(1500)), Number(FromInt(-100)), NotANumber}

\* health_slider: from 70 to 100 in 30 steps (line 278).
SetHealths == {FromInt(95), FromInt(70)}

\* degradation_slider: from 0 to 2 in 20 steps (line 324).
SetDegradations == {R(5, 10), FromInt(2)}

Edit(field, v) ==
    /\ ui = "mainloop"
    /\ history.edits < MaxEdits
    /\ controls[field] # v
    /\ controls' = [controls EXCEPT ![field] = v]
    /\ history' = [history EXCEPT !.edits = @ + 1]
    /\ UNCHANGED <<run_button, export_button, labels, images,
                   system_details_label, simulation_results, threads, ui,
                   after_queue, data_folder, results_folder, csv_file>>

\* A click on a value of mode_selector: the value is selected and
\* toggle_mode (lines 402-410) enables or disables the entries.
SelectMode ==
    \E value \in {"Select City", "Manual Entry"} : Edit("mode_selector", value)

\* A choice in city_combobox: city_selected (lines 412-422) fills the
\* latitude and longitude entries.
SelectCity ==
    \E city_name \in DOMAIN GERMAN_CITIES :
        /\ ui = "mainloop"
        /\ history.edits < MaxEdits
        /\ controls.city_combobox # city_name
        /\ controls.mode_selector # "Manual Entry"
        /\ controls' = [controls EXCEPT
                           !.city_combobox = city_name,
                           !.lat_entry = Number(GERMAN_CITIES[city_name][1]),
                           !.lon_entry = Number(GERMAN_CITIES[city_name][2])]
        /\ history' = [history EXCEPT !.edits = @ + 1]
        /\ UNCHANGED <<run_button, export_button, labels, images,
                       system_details_label, simulation_results, threads, ui,
                       after_queue, data_folder, results_folder, csv_file>>

TypeCost == \E v \in TypedCosts : Edit("cost_entry", v)

MoveHealthSlider == \E v \in SetHealths : Edit("health_slider", v)

MoveDegradationSlider == \E v \in SetDegradations : Edit("degradation_slider", v)

----------------------------------------------------------------------------
(* Specifications *)

\* What pvlib returns in the application specification: a year of 1100
\* kWh/kWp.
RawResults == {Raw(275000, 290000, 300000, 250, R(3, 2))}

Worker(raws) ==
    \E w \in Runs :
        \/ ParseParameters(w)
        \/ FetchCached(w)
        \/ FetchDownload(w)
        \/ FetchFails(w)
        \/ Simulate(w, raws)
        \/ SimulateRaises(w)

TkCallbacks ==
    \/ DisableRunButton
    \/ RunSimulationFinished
    \/ UpdateGuiResults
    \/ UpdateGuiResultsPlotError
    \/ UpdateGuiResultsImageError

Next ==
    \/ StartThread(MaxRuns)
    \/ TkCallbacks
    \/ Worker(RawResults)
    \/ ExportToCsv
    \/ ExportToCsvFails
    \/ TypeCost
    \/ MoveHealthSlider
    \/ MoveDegradationSlider
    \/ SelectMode
    \/ SelectCity

Spec == Init /\ [][Next]_vars

----------------------------------------------------------------------------
(* The pipeline specification: one run for every combination of inputs *)

CostEntries == {Number(FromInt(1500)), Number(FromInt(0))}

PriceEntries == {Number(R(30, 100)), Number(Zero)}

Co2Entries == {Number(FromInt(434)), Number(Zero)}

HealthValues == {FromInt(70), FromInt(95), FromInt(100)}

DegradationValues == {Zero, R(5, 10), FromInt(2)}

\* Years of 1100, 1000 and 100 kWh/kWp (the second with a lossless
\* inverter, the third with no DC system loss), a year without AC energy
\* and a year without irradiance.
PipelineRawResults ==
    {Raw(275000, 290000, 300000, 250, R(3, 2)),
     Raw(250000, 250000, 50000, 250, R(3, 2)),
     Raw(25000, 30000, 5000, 250, R(3, 2)),
     Raw(0, 0, 300000, 250, R(3, 2)),
     Raw(0, 0, 0, 250, R(3, 2))}

PipelineInit ==
    /\ \E cost \in CostEntries, price \in PriceEntries, co2 \in Co2Entries,
          health \in HealthValues, degradation \in DegradationValues :
            controls = [InitControls EXCEPT !.cost_entry = cost,
                                            !.price_entry = price,
                                            !.co2_entry = co2,
                                            !.health_slider = health,
                                            !.degradation_slider = degradation]
    /\ data_folder \in SUBSET {[name |-> file_path(InitControls.lat_entry.v,
                                                    InitControls.lon_entry.v, ""),
                                 data |-> "tmy_a"]}
    /\ InitRest

PipelineNext ==
    \/ StartThread(PipelineRuns)
    \/ TkCallbacks
    \/ Worker(PipelineRawResults)

PipelineSpec == PipelineInit /\ [][PipelineNext]_vars

----------------------------------------------------------------------------
(* Claims *)

\* The worker of run w has been started and has not ended.
InFlight(w) == threads[w].pc \in {"parse", "fetch", "simulate"}

\* The callback scheduled by run w has not run yet.
Pending(w) == \E i \in 1 .. Len(after_queue) : after_queue[i].run = w

\* Run w has been started and is not over: its worker is running or the
\* callback it scheduled is still to run.
Active(w) == InFlight(w) \/ Pending(w)

Started == {w \in Runs : threads[w].pc # "new"}

\* The run started last.
Latest == CHOOSE w \in Started : \A v \in Started : v <= w

\* C1: at most one simulation run is in flight at any time: no worker is
\* started while an earlier run's worker is running or its callback is
\* still to run.
C1_AtMostOneRunInFlight == Cardinality({w \in Runs : Active(w)}) <= 1

\* C1 witness: a second run is in flight after the first has ended.
C1_SecondRunAfterFirst ==
    /\ threads[1].pc = "done" /\ ~Pending(1)
    /\ threads[2].pc = "fetch"

\* C2: every started run returns the trigger to the ready state: once no
\* run is active and the Tk thread is back in its mainloop, the run button
\* is enabled.
C2_EveryRunReenablesTrigger ==
    (ui = "mainloop" /\ \A w \in Runs : ~Active(w)) => run_button.state = "normal"

\* The remaining cost plotted for the stored result.
StoredRemainingCost == results_folder.economic.data.remaining_cost

\* C3: when the cost is not recovered within the horizon
\* (remaining_cost[25] > 0), the payback period stored and displayed is no
\* number of years.
C3_UnrecoveredCostHasNoPaybackNumber ==
    (simulation_results.present /\ IsPos(StoredRemainingCost[Horizon]))
        => /\ ~IsFinite(simulation_results.Summary.PaybackPeriod)
           /\ ~IsFinite(labels.payback_label.v)

\* C4: with an electricity price of 0 or a first-year yield of 0 the
\* remaining cost never decreases and the payback result is no number of
\* years.
C4_ZeroPriceOrYieldNeverPaysBack ==
    (simulation_results.present
     /\ (history.stored.args.price = Zero
         \/ simulation_results.Summary.FinalAnnualSpecificYield = Zero))
        => /\ \A y \in 1 .. Horizon :
                ~IsNeg(FSub(StoredRemainingCost[y], StoredRemainingCost[y - 1]))
           /\ ~IsFinite(simulation_results.Summary.PaybackPeriod)

FiniteLosses(l) ==
    /\ IsFinite(l.POA) /\ IsFinite(l.DCSystemLoss)
    /\ IsFinite(l.InverterLoss) /\ IsFinite(l.FinalACYield)

\* C5: no loss waterfall holding an infinite or not-a-number value is
\* stored, plotted or displayed.
C5_NoNonFiniteWaterfall ==
    /\ simulation_results.present => FiniteLosses(simulation_results.Losses)
    /\ results_folder.loss.drawn => FiniteLosses(results_folder.loss.data)
    /\ images.loss.drawn => FiniteLosses(images.loss.data)

\* Loss proportions of a raw result with poa >= dc >= ac > 0.
ValidProportions(lp) ==
    /\ IsFinite(lp.final_yield_ratio) /\ IsPos(lp.final_yield_ratio)
    /\ IsFinite(lp.dc_system_loss_ratio) /\ ~IsNeg(lp.dc_system_loss_ratio)
    /\ IsFinite(lp.inverter_loss_ratio) /\ ~IsNeg(lp.inverter_loss_ratio)

\* The health-derated specific yield of the stored result's inputs.
StoredRealYield ==
    FMul(history.stored.args.specific_yield,
         FDiv(history.stored.health_slider, FromInt(100)))

\* C6: for a raw result with poa >= dc >= ac > 0 the stored waterfall is
\* consistent: POA minus DC system loss minus inverter loss is the final AC
\* yield, which is the health-derated specific yield, and final yield / POA
\* is the final_yield_ratio the simulation returned.
C6_WaterfallConsistent ==
    (simulation_results.present
     /\ ValidProportions(history.stored.args.loss_proportions))
        => LET l == simulation_results.Losses
           IN  /\ FSub(FSub(l.POA, l.DCSystemLoss), l.InverterLoss) = l.FinalACYield
               /\ l.FinalACYield = StoredRealYield
               /\ FDiv(l.FinalACYield, l.POA)
                    = history.stored.args.loss_proportions.final_yield_ratio

\* C6 witness: a waterfall with a DC loss and an inverter loss, stored for
\* a health of 70 %.
C6_DeratedWaterfallStored ==
    /\ simulation_results.present
    /\ ValidProportions(history.stored.args.loss_proportions)
    /\ history.stored.health_slider = FromInt(70)
    /\ IsPos(simulation_results.Losses.DCSystemLoss)
    /\ IsPos(simulation_results.Losses.InverterLoss)

\* The ranges of the scenario parameters the worker parses.
ValidParameters(p) ==
    /\ ~IsNeg(p.cost) /\ ~IsNeg(p.price) /\ ~IsNeg(p.co2_intensity)
    /\ ~IsNeg(p.annual_degradation_rate)
    /\ ~IsPos(FSub(p.annual_degradation_rate, R(2, 100)))

\* C7: no run reaches the weather fetch or the simulator with a parameter
\* out of its range.
C7_InvalidParameterStopsBeforeFetch ==
    \A w \in Runs :
        threads[w].pc \in {"fetch", "simulate"} => ValidParameters(threads[w].params)

\* C8: after a failed run the labels, the images and the stored results
\* are what they were when that run started.
C8_FailedRunShowsNothingNew ==
    (Started # {} /\ history.run[Latest].outcome = "failed") => Shown = history.before

\* C9: from the moment a run is triggered until it completes successfully,
\* simulation_results holds no result of an earlier run.
C9_NoEarlierResultWhileRunning ==
    (Started # {} /\ history.run[Latest].outcome # "ok" /\ simulation_results.present)
        => history.stored.run = Latest

\* C10: the CO2 projection is linear and ignores degradation: annual_kg is
\* real_specific_yield * grid_co2_intensity / 1000 and the plotted
\* cumulative value of year y is annual_kg * y; a yield of 1000 at an
\* intensity of 434 gives 434 kg a year and 4340 kg after 10 years.
C10_Co2ProjectionLinear ==
    simulation_results.present
        => LET annual_kg == FDiv(FMul(StoredRealYield,
                                      history.stored.args.co2_intensity),
                                 FromInt(1000))
               cumulative_kg == results_folder.environmental.data
           IN  /\ simulation_results.Summary.AnnualCO2Saved = annual_kg
               /\ labels.co2_label = Text(Format(annual_kg, 1))
               /\ \A y \in Years : cumulative_kg[y] = FMul(annual_kg, FromInt(y))
               /\ (StoredRealYield = FromInt(1000)
                   /\ history.stored.args.co2_intensity = FromInt(434))
                    => annual_kg = FromInt(434) /\ cumulative_kg[10] = FromInt(4340)

\* C10 witness: a yield of 1000 kWh/kWp at 434 g/kWh with a degradation of
\* 2 % a year, which the remaining cost of the same run shows and the CO2
\* curve does not.
C10_LinearDespiteDegradation ==
    /\ simulation_results.present
    /\ StoredRealYield = FromInt(1000)
    /\ history.stored.args.co2_intensity = FromInt(434)
    /\ history.stored.args.annual_degradation_rate = R(2, 100)
    /\ history.stored.args.price = R(30, 100)
    /\ FSub(StoredRemainingCost[1], StoredRemainingCost[2])
         # FSub(StoredRemainingCost[0], StoredRemainingCost[1])
    /\ results_folder.environmental.data[10] = FromInt(4340)

\* The yield of year y of the projection: the first year's yield decayed
\* y - 1 times (a yield that is not a number stays so).
RECURSIVE YieldOfYear(_, _, _)
YieldOfYear(first_year_yield, degradation, y) ==
    IF y = 1 \/ ~IsFinite(first_year_yield) THEN first_year_yield
    ELSE YieldOfYear(Decay(first_year_yield, degradation), degradation, y - 1)

\* The cost is recovered within the horizon.
Recovered(rc) == \E k \in 1 .. Horizon : ~IsPos(rc[k])

\* The first year whose remaining cost is not positive.
FirstRecovered(rc) ==
    CHOOSE k \in 1 .. Horizon :
        ~IsPos(rc[k]) /\ \A i \in 1 .. (k - 1) : IsPos(rc[i])

\* p lies in [k-1, k] and is the zero crossing of the line through
\* (k-1, rc[k-1]) and (k, rc[k]).
CrossesAt(rc, k, p) ==
    /\ IsFinite(p)
    /\ ~IsNeg(FSub(p, FromInt(k - 1)))
    /\ ~IsPos(FSub(p, FromInt(k)))
    /\ p = FAdd(FromInt(k - 1), FDiv(rc[k - 1], FSub(rc[k - 1], rc[k])))

\* C11: remaining_cost[0] is the cost and each year takes off that year's
\* decayed yield times the price; when the cost is recovered within the
\* horizon, the payback period lies between the first year k with
\* remaining_cost[k] <= 0 and the year before it, at
\* (k-1) + remaining_cost[k-1] / (remaining_cost[k-1] - remaining_cost[k]);
\* for cost 1500, yield 1100, price 0.30 and degradation 0.005 it lies
\* between 4 and 5 years.
C11_PaybackInterpolated ==
    (simulation_results.present /\ Recovered(StoredRemainingCost))
        => /\ StoredRemainingCost[0] = history.stored.args.cost
           /\ \A y \in 1 .. Horizon :
                FSub(StoredRemainingCost[y - 1], StoredRemainingCost[y])
                    = FMul(YieldOfYear(StoredRealYield,
                                       history.stored.args.annual_degradation_rate,
                                       y),
                           history.stored.args.price)
           /\ CrossesAt(StoredRemainingCost, FirstRecovered(StoredRemainingCost),
                        simulation_results.Summary.PaybackPeriod)
           /\ (/\ history.stored.args.cost = FromInt(1500)
               /\ StoredRealYield = FromInt(1100)
               /\ history.stored.args.price = R(30, 100)
               /\ history.stored.args.annual_degradation_rate = R(5, 1000))
                => /\ IsPos(FSub(simulation_results.Summary.PaybackPeriod, FromInt(4)))
                   /\ IsNeg(FSub(simulation_results.Summary.PaybackPeriod, FromInt(5)))

\* Run w's call of get_tmy_data has returned data.
Returned(w) == threads[w].pc \in {"simulate", "done"} /\ threads[w].tmy_data # ""

\* C12: the weather cache avoids repeated network calls: no call of the
\* network fetch follows a successful download of the same cache file, every
\* call that returns data for a downloaded file returns the downloaded data,
\* a failed download returns nothing and leaves no cache file, and no call
\* of get_tmy_data fetches twice.
C12_CacheAvoidsRepeatedDownloads ==
    /\ \A i, j \in 1 .. Len(history.network) :
        (i < j /\ history.network[i].name = history.network[j].name)
            => ~history.network[i].ok
    /\ \A w \in Runs, i \in 1 .. Len(history.network) :
        (Returned(w) /\ history.network[i].ok
         /\ history.network[i].name = FileOf(w))
            => threads[w].tmy_data = history.network[i].data
    /\ \A i \in 1 .. Len(history.network) :
        ~history.network[i].ok
            => /\ threads[history.network[i].run].tmy_data = ""
               /\ Exists(history.network[i].name)
                    => \E j \in 1 .. Len(history.network) :
                         /\ history.network[j].ok
                         /\ history.network[j].name = history.network[i].name
    /\ \A i, j \in 1 .. Len(history.network) :
        history.network[i].run = history.network[j].run => i = j

\* C12 witness: the second run has read the file the first run downloaded,
\* and the network was called once.
C12_SecondRunReadsCache ==
    /\ Len(history.network) = 1
    /\ history.network[1].ok
    /\ history.network[1].run = 1
    /\ threads[2].pc = "simulate"
    /\ FileOf(2) = history.network[1].name
    /\ threads[2].tmy_data = history.network[1].data

\* What Summary["City"] says for the widgets c.
CityOf(c) ==
    IF c.mode_selector = "Select City" THEN <<c.city_combobox>>
    ELSE <<"Manual", c.lat_entry, c.lon_entry>>

\* The Summary names the widgets c, and the numbers of the result come from
\* the simulated yield and the widgets c.
ComputedFrom(c, summary, args) ==
    /\ summary.City = CityOf(c)
    /\ summary.Tilt = c.tilt_slider
    /\ summary.Azimuth = c.azimuth_slider
    /\ summary.SystemHealth = c.health_slider
    /\ summary.AnnualDegradationRate = c.degradation_slider
    /\ summary.FinalAnnualSpecificYield
         = FMul(args.specific_yield, FDiv(c.health_slider, FromInt(100)))
    /\ summary.AnnualSavings
         = FMul(summary.FinalAnnualSpecificYield, c.price_entry.v)
    /\ summary.PaybackPeriod
         = create_economic_plot(c.cost_entry.v, summary.FinalAnnualSpecificYield,
                                c.price_entry.v,
                                FDiv(c.degradation_slider, FromInt(100)))

\* C13: the stored result is computed from the widgets as they were when
\* its run was triggered, and its Summary records those values: no edit
\* made while the run was in flight shows in either.
C13_ResultFromTriggerSnapshot ==
    simulation_results.present
        => ComputedFrom(history.stored.triggered, simulation_results.Summary,
                        history.stored.args)

\* The worker of run w failed at once: float() raised on an entry.
ParseFailed(w) == threads[w].pc = "done" /\ ~threads[w].params.parsed

\* C14: the run button is disabled before a run's completion or error
\* callback enables it again: while a run is going and the Tk thread is in
\* its mainloop the button is disabled, and once the error callback of a
\* worker that failed at once has run, the button is enabled, however early
\* the worker failed.
C14_DisabledBeforeReenabled ==
    /\ \A w \in Runs :
        (ui = "mainloop" /\ Active(w)) => run_button.state = "disabled"
    /\ (Started # {} /\ ParseFailed(Latest) /\ ~Pending(Latest) /\ ui = "mainloop")
        => run_button = [state |-> "normal", text |-> "Error"]

\* C14 witness: the worker failed and its error callback has run after the
\* button was disabled.
C14_ErrorCallbackRanAfterDisable ==
    /\ ui = "mainloop"
    /\ ParseFailed(1) /\ ~Pending(1)
    /\ run_button = [state |-> "normal", text |-> "Error"]

\* C15: the export button is enabled only when a complete result is stored
\* and a run has succeeded, and no file is written without a stored result.
C15_ExportEnabledOnlyWithResult ==
    /\ export_button = "normal"
        => /\ simulation_results.present
           /\ DOMAIN simulation_results
                = {"present", "Summary", "Losses", "MonthlyProduction", "Components"}
           /\ \E w \in Runs : history.run[w].outcome = "ok"
    /\ csv_file.present => simulation_results.present

\* C15 witness: a result is stored, the export button is enabled and the
\* result has been exported.
C15_ExportedStoredResult ==
    /\ export_button = "normal"
    /\ simulation_results.present
    /\ csv_file.present
    /\ csv_file.Summary = simulation_results.Summary

====
